---- MODULE Spec2Model ----
(***************************************************************************)
(* Model of lib/git-credential-proxy.py: a Unix-socket server that relays  *)
(* git credential requests to the macOS keychain helper (Spec, FairSpec),  *)
(* and of lib/host-url-opener.py, the HTTP bridge that opens URLs on the   *)
(* host (OpenerSpec).  The scripts are separate programs: each             *)
(* specification runs one of them and leaves the others' variables alone.  *)
(*                                                                         *)
(* Bytes are integers 0..255, byte strings are sequences of bytes, Python  *)
(* str values are sequences of code points.  The process is modelled at    *)
(* the granularity of its blocking calls: accept, recv, communicate.       *)
(***************************************************************************)
EXTENDS Integers, Sequences, FiniteSets, TLC

(***************************************************************************)
(* Bounds of the model.                                                    *)
(***************************************************************************)
\* connections a run of the server accepts
MaxConns == 2
\* chunks the clients send over the whole run
MaxChunks == 3

(***************************************************************************)
(* Program constants.                                                      *)
(***************************************************************************)
RECV_SIZE == 4096
SOCKET_MODE == 438
\* mode of a socket file as bind creates it (0777 masked by umask 022)
BIND_MODE == 493

Ops == { <<103, 101, 116>>,
         <<115, 116, 111, 114, 101>>,
         <<101, 114, 97, 115, 101>> }

(***************************************************************************)
(* Byte strings the clients send, one per send call.                       *)
(***************************************************************************)
Chunk == [ GetLine |-> <<103, 101, 116, 10>>,
           Attrs |-> <<97, 61, 195, 169, 10, 10>>,
           Store |-> <<115, 116, 111, 114, 101, 10, 10>>,
           EraseCrLf |-> <<32, 101, 114, 97, 115, 101, 13, 10, 13, 10>>,
           Put |-> <<112, 117, 116, 10, 10>>,
           NoNewline |-> <<103, 101, 116>>,
           BadUtf8 |-> <<255>>,
           Newline |-> <<10>> ]

Chunks == { Chunk.GetLine, Chunk.Attrs, Chunk.Store, Chunk.EraseCrLf, Chunk.Put,
            Chunk.NoNewline, Chunk.BadUtf8, Chunk.Newline }

(***************************************************************************)
(* What the helper stub can print on stdout and on stderr.                 *)
(***************************************************************************)
HelperOutputs == { <<>>, <<112, 61, 49, 10>>, <<112, 61, 195, 169, 10>> }
HelperDiagnostics == { <<>>, <<119, 10>>, <<255>> }

(***************************************************************************)
(* bytes and str                                                           *)
(***************************************************************************)
Take(s, n) == SubSeq(s, 1, IF Len(s) < n THEN Len(s) ELSE n)

Drop(s, n) == SubSeq(s, n + 1, Len(s))

\* needle in hay, for byte strings
Contains(hay, needle) ==
    \E i \in 1..(Len(hay) - Len(needle) + 1) :
        SubSeq(hay, i, i + Len(needle) - 1) = needle

\* b'\n\n' in request_data or b'\r\n\r\n' in request_data
HasTerminator(data) ==
    Contains(data, <<10, 10>>) \/ Contains(data, <<13, 10, 13, 10>>)

RECURSIVE Utf8Valid(_)
\* bytes.decode('utf-8') succeeds (one- and two-byte forms)
Utf8Valid(b) ==
    IF b = <<>> THEN TRUE
    ELSE IF b[1] < 128 THEN Utf8Valid(Tail(b))
    ELSE IF b[1] \in 194..223 /\ Len(b) >= 2 /\ b[2] \in 128..191
         THEN Utf8Valid(Tail(Tail(b)))
    ELSE FALSE

RECURSIVE Utf8Decode(_)
\* bytes.decode('utf-8') of valid input: the code points
Utf8Decode(b) ==
    IF b = <<>> THEN <<>>
    ELSE IF b[1] < 128 THEN <<b[1]>> \o Utf8Decode(Tail(b))
    ELSE <<(b[1] - 192) * 64 + (b[2] - 128)>> \o Utf8Decode(Tail(Tail(b)))

RECURSIVE Utf8Encode(_)
\* str.encode('utf-8')
Utf8Encode(s) ==
    IF s = <<>> THEN <<>>
    ELSE IF s[1] < 128 THEN <<s[1]>> \o Utf8Encode(Tail(s))
    ELSE <<192 + (s[1] \div 64), 128 + (s[1] % 64)>> \o Utf8Encode(Tail(s))

\* the code points str.strip() removes (below U+0100)
Whitespace == {9, 10, 11, 12, 13, 28, 29, 30, 31, 32, 133, 160}

RECURSIVE LStrip(_)
LStrip(s) ==
    IF s # <<>> /\ s[1] \in Whitespace THEN LStrip(Tail(s)) ELSE s

RECURSIVE RStrip(_)
RStrip(s) ==
    IF s # <<>> /\ s[Len(s)] \in Whitespace
    THEN RStrip(SubSeq(s, 1, Len(s) - 1)) ELSE s

\* str.strip()
Strip(s) == RStrip(LStrip(s))

\* index of the first '\n' of s, 0 when there is none
FirstNewline(s) ==
    IF \E i \in 1..Len(s) : s[i] = 10
    THEN CHOOSE i \in 1..Len(s) : s[i] = 10 /\ \A j \in 1..(i - 1) : s[j] # 10
    ELSE 0

\* request_str.split('\n', 1)
SplitFirstLine(s) ==
    IF FirstNewline(s) = 0 THEN <<s>>
    ELSE <<SubSeq(s, 1, FirstNewline(s) - 1), Drop(s, FirstNewline(s))>>

(***************************************************************************)
(* State.                                                                  *)
(*   pc            where the process is: "start" (before cleanup_socket),  *)
(*                 "bind", "chmod", "accept", "recv", "communicate",       *)
(*                 "exited"                                                *)
(*   file, fileMode  what is at socket_path: "absent", "stale" (left by an *)
(*                 earlier run), "fresh" (bound by this run)               *)
(*   rx, clientClosed, sent  the client's end of the accepted connection   *)
(*   written       the data of the sendall calls on the connection         *)
(*   prevWritten   written of the connection before this one               *)
(*   hadStale      a file was at socket_path when the process started      *)
(*   wasRunning    start() has reached self.running = True                 *)
(*   process       the helper: "none", "running", "exited", "killed"       *)
(***************************************************************************)
VARIABLES pc, exitStatus, hadStale, running, wasRunning,
          server_socket, file, fileMode, conn, chunksSent, rx, clientClosed,
          sent, prevWritten,
          client_socket, request_data, operation, credential_data,
          process, helperOp, helperIn, stdout, stderr, written,
          outcome, lastLog

procVars == <<pc, exitStatus, hadStale, running, wasRunning,
              server_socket>>
fileVars == <<file, fileMode>>
clientVars == <<conn, chunksSent, rx, clientClosed, sent, prevWritten>>
handlerVars == <<client_socket, request_data, operation, credential_data,
                 process, helperOp, helperIn, stdout, stderr, written, outcome>>
vars == <<procVars, fileVars, clientVars, handlerVars, lastLog>>

(***************************************************************************)
(* State of host-url-opener.py.                                            *)
(*   uPc         "main", "bind", "write_config", "ready", "serving",       *)
(*               "exited"                                                  *)
(*   uArgs       what main() finds on its command line: "ok", "usage",     *)
(*               "missing" (no such directory), "notdir"                   *)
(*   AUTH_TOKEN  the token of this run, <<>> before it is generated        *)
(*   confFile, confMode  bridge.conf: "absent", "stale" (an earlier run's),*)
(*               "current" (this run's port and token)                     *)
(*   uRequest, uStatuses, uOpened  the last request handled, the status    *)
(*               lines sent for it, the commands run for it                *)
(***************************************************************************)
VARIABLES uPc, uArgs, uExitStatus, uWasServing, AUTH_TOKEN, confFile,
          confMode, uRequest, uStatuses, uOpened

openerVars == <<uPc, uArgs, uExitStatus, uWasServing, AUTH_TOKEN, confFile,
                confMode, uRequest, uStatuses, uOpened>>

\* no request yet
NoRequest == [method |-> "", path |-> "", auth |-> <<>>, clenText |-> "absent",
              clen |-> 0,
              body |-> [kind |-> "none", top |-> "none",
                        url |-> [t |-> "missing", text |-> <<>>, num |-> 0],
                        size |-> 0]]

\* host-url-opener.py is not the script under study
OpenerOff ==
    /\ uPc = "off"
    /\ uArgs = "ok"
    /\ uExitStatus = -1
    /\ uWasServing = FALSE
    /\ AUTH_TOKEN = <<>>
    /\ confFile = "absent"
    /\ confMode = 0
    /\ uRequest = NoRequest
    /\ uStatuses = <<>>
    /\ uOpened = <<>>

(***************************************************************************)
(* State of detect-remote-mcps.py (the config rewriter): the command line, *)
(* the directories and files on disk, and main()'s position.               *)
(***************************************************************************)
VARIABLES rPc, rExitStatus, args, dirs, files, dirs0, files0, config

rewriterVars == <<rPc, rExitStatus, args, dirs, files, dirs0, files0, config>>

\* a path that does not exist
Absent == [exists |-> FALSE, lines |-> <<>>]

NoArgs == [config |-> [dir |-> "", name |-> ""],
           output |-> [dir |-> "", name |-> ""],
           docker_config |-> [dir |-> "", name |-> ""],
           dry_run |-> FALSE]

RewriterOff ==
    /\ rPc = "off"
    /\ rExitStatus = -1
    /\ args = NoArgs
    /\ dirs = {}
    /\ files = <<>>
    /\ dirs0 = {}
    /\ files0 = <<>>
    /\ config = "none"

(***************************************************************************)
(* State of a call of strip_jsonc_comments: the tokens the input text is   *)
(* made of, the text, the characters the loop kept and the value returned. *)
(***************************************************************************)
VARIABLES sPc, sTokens, sContent, sResult, sReturned

stripVars == <<sPc, sTokens, sContent, sResult, sReturned>>

StripOff ==
    /\ sPc = "off"
    /\ sTokens = <<>>
    /\ sContent = <<>>
    /\ sResult = <<>>
    /\ sReturned = <<>>

(***************************************************************************)
(* A caller of GitCredentialProxy other than main(): the calls of          *)
(* cleanup_socket and stop() it has made, and the last of them.            *)
(***************************************************************************)
VARIABLES calls, lastCall

callerVars == <<calls, lastCall>>

\* no call yet
NoCall == [name |-> "none", found |-> FALSE, raised |-> FALSE]

CallerOff ==
    /\ calls = 0
    /\ lastCall = NoCall

(***************************************************************************)
(* State of detect-remote-mcps.py between parse_jsonc and the writes: the  *)
(* parsed config, --port and --docker/--native, and what                   *)
(* detect_remote_mcps, generate_mcp_proxy_config and                       *)
(* update_opencode_config return.                                          *)
(***************************************************************************)
VARIABLES dPc, dConfig, use_docker, proxy_port, remote_mcps, proxy_config,
          updated_config

detectVars == <<dPc, dConfig, use_docker, proxy_port, remote_mcps,
                proxy_config, updated_config>>

\* a key of the config that is not there
NoKey == [present |-> FALSE, servers |-> <<>>]

DetectOff ==
    /\ dPc = "off"
    /\ dConfig = [mcp |-> NoKey, mcpServers |-> NoKey]
    /\ use_docker = TRUE
    /\ proxy_port = 8080
    /\ remote_mcps = <<>>
    /\ proxy_config = <<>>
    /\ updated_config = <<>>

\* the variables of the scripts other than git-credential-proxy.py
exceptProxy == <<openerVars, rewriterVars, stripVars, callerVars, detectVars>>

\* the variables of the scripts other than host-url-opener.py
exceptOpener == <<vars, rewriterVars, stripVars, callerVars, detectVars>>

\* the outcomes of a connection that are errors of that connection
PerConnectionErrors == {"empty", "decode", "noline", "badop", "recverror",
                        "notfound", "timeout", "nooutput", "helpererror",
                        "writefail"}

ProxyStart ==
    /\ pc = "start"
    /\ exitStatus = -1
    /\ running = FALSE
    /\ wasRunning = FALSE
    /\ server_socket = "none"
    /\ file \in {"absent", "stale"}
    /\ hadStale = (file = "stale")
    /\ fileMode = IF file = "stale" THEN SOCKET_MODE ELSE 0
    /\ conn = 0
    /\ chunksSent = 0
    /\ rx = <<>>
    /\ clientClosed = FALSE
    /\ sent = <<>>
    /\ prevWritten = <<>>
    /\ client_socket = "none"
    /\ request_data = <<>>
    /\ operation = <<>>
    /\ credential_data = <<>>
    /\ process = "none"
    /\ helperOp = <<>>
    /\ helperIn = <<>>
    /\ stdout = <<>>
    /\ stderr = <<>>
    /\ written = <<>>
    /\ outcome = "none"
    /\ lastLog = "none"

\* the proxy not started, while another script runs
ProxyOff == ProxyStart /\ file = "absent"

Init ==
    /\ ProxyStart
    /\ OpenerOff
    /\ RewriterOff
    /\ StripOff
    /\ CallerOff
    /\ DetectOff

(***************************************************************************)
(* Server lifecycle.                                                       *)
(***************************************************************************)
\* os.path.exists(self.socket_path)
Exists(f) == f # "absent"

\* an unlink that leaves the file in place
Unlinked_Kept(f) == f

\* the file after a successful os.unlink
Unlinked(f) == "absent"

\* every exit reports success
ExitCode_Zero(cause) == 0

\* the status the process ends with: sys.exit(1) in main() when start()
\* raises, sys.exit(0) in signal_handler, 0 when main() returns
ExitCode(cause) == IF cause = "fatal" THEN 1 ELSE 0

\* process exit: the kernel closes the descriptors the process holds
ClosedAtExit(s) == IF s = "open" THEN "closed" ELSE s

\* main(): except Exception -> sys.exit(1)
Fatal ==
    /\ pc' = "exited"
    /\ exitStatus' = ExitCode("fatal")
    /\ server_socket' = ClosedAtExit(server_socket)
    /\ lastLog' = "Fatal error"

\* start(): self.cleanup_socket()
StartCleanup ==
    /\ UNCHANGED exceptProxy
    /\ pc = "start"
    /\ IF Exists(file)
       THEN \E unlinkOk \in BOOLEAN :
              IF unlinkOk
              THEN /\ file' = Unlinked(file)
                   /\ fileMode' = 0
                   /\ pc' = "bind"
                   /\ lastLog' = "Removed existing socket"
                   /\ UNCHANGED <<exitStatus, server_socket>>
              ELSE /\ Fatal
                   /\ UNCHANGED fileVars
       ELSE /\ pc' = "bind"
            /\ UNCHANGED <<fileVars, exitStatus, server_socket, lastLog>>
    /\ UNCHANGED <<hadStale, running, wasRunning, clientVars, handlerVars>>

\* start(): socket(), bind(), listen(5); bind refuses a path that exists
Bind ==
    /\ UNCHANGED exceptProxy
    /\ pc = "bind"
    /\ \E bindOk \in BOOLEAN :
         IF bindOk /\ ~Exists(file)
         THEN /\ server_socket' = "open"
              /\ file' = "fresh"
              /\ fileMode' = BIND_MODE
              /\ pc' = "chmod"
              /\ UNCHANGED <<exitStatus, lastLog>>
         ELSE /\ Fatal
              /\ UNCHANGED fileVars
    /\ UNCHANGED <<hadStale, running, wasRunning, clientVars, handlerVars>>

\* a chmod that leaves the mode bind gave the file
Chmodded_Skipped(mode) == mode

\* the mode of the file after os.chmod(self.socket_path, 0o666)
Chmodded(mode) == SOCKET_MODE

\* start(): os.chmod(self.socket_path, 0o666); self.running = True
Chmod ==
    /\ UNCHANGED exceptProxy
    /\ pc = "chmod"
    /\ \E chmodOk \in BOOLEAN :
         IF chmodOk
         THEN /\ fileMode' = Chmodded(fileMode)
              /\ running' = TRUE
              /\ wasRunning' = TRUE
              /\ pc' = "accept"
              /\ lastLog' = "listening"
              /\ UNCHANGED <<exitStatus, server_socket, file>>
         ELSE /\ Fatal
              /\ UNCHANGED <<fileVars, running, wasRunning>>
    /\ UNCHANGED <<hadStale, clientVars, handlerVars>>

(***************************************************************************)
(* Accept loop and connection handler.                                     *)
(***************************************************************************)
\* a buffer that outlives the connection it was filled by
InitialBuffer_Kept(old) == old

\* request_data = b'' at the top of handle_credential_request
InitialBuffer(old) == <<>>

\* a handler that leaves the connection open
Closed_Leaked(sock) == sock

\* finally: client_socket.close()
Closed(sock) == "closed"

\* a decode error that escapes the handler and start()
AfterConnectionError_Escapes(kind) ==
    IF kind = "decode" THEN "exited" ELSE "accept"

\* where control is once handle_credential_request has caught an error
AfterConnectionError(kind) == "accept"

\* no check of the operation
ValidOperation_Any(op) == TRUE

\* operation not in ['get', 'store', 'erase'] is refused
ValidOperation(op) == op \in Ops

\* operation = lines[0].strip()
OperationOf(str) == Strip(SplitFirstLine(str)[1])

\* attributes without what trails them
CredentialDataOf_Trimmed(str) == RStrip(SplitFirstLine(str)[2])

\* credential_data = lines[1]
CredentialDataOf(str) == SplitFirstLine(str)[2]

\* how the frame fares between the read loop and Popen
ParseOutcome(data) ==
    IF data = <<>> THEN "empty"
    ELSE IF ~Utf8Valid(data) THEN "decode"
    ELSE IF Len(SplitFirstLine(Utf8Decode(data))) < 2 THEN "noline"
    ELSE IF ~ValidOperation(OperationOf(Utf8Decode(data))) THEN "badop"
    ELSE "ok"

\* the line an outcome leaves in the log at level INFO, "" when none
LogOf(kind) ==
    CASE kind = "decode" -> "Error handling request"
      [] kind = "recverror" -> "Error handling request"
      [] kind = "noline" -> "Invalid request format"
      [] kind = "badop" -> "Invalid operation"
      [] kind = "notfound" -> "Credential helper not found"
      [] kind = "timeout" -> "Credential helper timed out"
      [] kind = "helpererror" -> "Error calling credential helper"
      [] kind = "writefail" -> "Error calling credential helper"
      [] OTHER -> ""

\* closing a socket drops the bytes nobody read from it
Discard(buffer) == <<>>

\* the handler returns to the accept loop with the connection closed;
\* prior is the last line logged before the one the outcome logs
Return(kind, prior) ==
    /\ outcome' = kind
    /\ client_socket' = Closed(client_socket)
    /\ rx' = Discard(rx)
    /\ pc' = IF kind \in PerConnectionErrors
             THEN AfterConnectionError(kind) ELSE "accept"
    /\ exitStatus' = IF pc' = "exited" THEN ExitCode("fatal") ELSE exitStatus
    /\ lastLog' = IF LogOf(kind) = "" THEN prior ELSE LogOf(kind)

\* while self.running: client_socket, _ = self.server_socket.accept()
Accept ==
    /\ UNCHANGED exceptProxy
    /\ pc = "accept"
    /\ running
    /\ conn < MaxConns
    /\ conn' = conn + 1
    /\ rx' = <<>>
    /\ clientClosed' = FALSE
    /\ sent' = <<>>
    /\ prevWritten' = written
    /\ client_socket' = "open"
    /\ request_data' = InitialBuffer(request_data)
    /\ operation' = <<>>
    /\ credential_data' = <<>>
    /\ process' = "none"
    /\ helperOp' = <<>>
    /\ helperIn' = <<>>
    /\ stdout' = <<>>
    /\ stderr' = <<>>
    /\ written' = <<>>
    /\ outcome' = "none"
    /\ pc' = "recv"
    /\ UNCHANGED <<exitStatus, hadStale, running, wasRunning,
                   server_socket, fileVars, chunksSent, lastLog>>

\* accept() raises: except Exception logs and the loop goes on
AcceptError ==
    /\ UNCHANGED exceptProxy
    /\ pc = "accept"
    /\ running
    /\ lastLog # "Error accepting connection"
    /\ lastLog' = "Error accepting connection"
    /\ UNCHANGED <<procVars, fileVars, clientVars, handlerVars>>

\* the client of the accepted connection sends one chunk while the server
\* reads; what it sends later is never read and is dropped at close
ClientSend ==
    /\ UNCHANGED exceptProxy
    /\ pc = "recv"
    /\ ~clientClosed
    /\ chunksSent < MaxChunks
    /\ \E c \in Chunks :
         /\ rx' = rx \o c
         /\ sent' = sent \o c
    /\ chunksSent' = chunksSent + 1
    /\ UNCHANGED <<procVars, fileVars, conn, clientClosed, prevWritten,
                   handlerVars, lastLog>>

\* the client closes its end
ClientClose ==
    /\ UNCHANGED exceptProxy
    /\ pc \in {"recv", "communicate"}
    /\ ~clientClosed
    /\ clientClosed' = TRUE
    /\ UNCHANGED <<procVars, fileVars, conn, chunksSent, rx, sent,
                   prevWritten, handlerVars, lastLog>>

\* one recv(4096) of the read loop; when the loop ends, the parse and Popen
Recv ==
    /\ UNCHANGED exceptProxy
    /\ pc = "recv"
    /\ rx # <<>> \/ clientClosed
    /\ LET chunk == Take(rx, RECV_SIZE)
           data == request_data \o chunk
       IN /\ request_data' = data
          /\ IF chunk # <<>> /\ ~HasTerminator(data)
             THEN /\ rx' = Drop(rx, RECV_SIZE)
                  /\ UNCHANGED <<pc, exitStatus, client_socket, operation,
                                 credential_data, process, helperOp, helperIn,
                                 outcome, lastLog>>
             ELSE IF ParseOutcome(data) # "ok"
             THEN /\ Return(ParseOutcome(data), lastLog)
                  /\ UNCHANGED <<operation, credential_data, process,
                                 helperOp, helperIn>>
             ELSE /\ operation' = OperationOf(Utf8Decode(data))
                  /\ credential_data' = CredentialDataOf(Utf8Decode(data))
                  /\ \E found \in BOOLEAN :
                       IF found
                       THEN /\ rx' = Drop(rx, RECV_SIZE)
                            /\ process' = "running"
                            /\ helperOp' = operation'
                            /\ helperIn' = Utf8Encode(credential_data')
                            /\ pc' = "communicate"
                            /\ UNCHANGED <<exitStatus, client_socket,
                                           outcome, lastLog>>
                       ELSE /\ Return("notfound", lastLog)
                            /\ UNCHANGED <<process, helperOp, helperIn>>
    /\ UNCHANGED <<hadStale, running, wasRunning, server_socket, fileVars,
                   conn, chunksSent, clientClosed, sent, prevWritten, stdout,
                   stderr, written>>

\* recv raises (connection reset): the outer except, then finally
RecvError ==
    /\ UNCHANGED exceptProxy
    /\ pc = "recv"
    /\ Return("recverror", lastLog)
    /\ UNCHANGED <<hadStale, running, wasRunning, server_socket, fileVars,
                   conn, chunksSent, clientClosed, sent, prevWritten,
                   request_data, operation, credential_data,
                   process, helperOp, helperIn, stdout, stderr, written>>

\* a timeout that leaves the helper alone
Killed_Not(p) == p

\* the helper after except subprocess.TimeoutExpired: process.kill()
Killed(p) == "killed"

\* what is handed to sendall: the helper's stdout
Response(out) == out

\* if stderr: logger.warning(...)
StderrLog(err, prior) == IF err # <<>> THEN "Credential helper stderr" ELSE prior

\* communicate returned with (stdout, stderr) before the timeout
HelperFinish ==
    /\ UNCHANGED exceptProxy
    /\ pc = "communicate"
    /\ \E out \in HelperOutputs, err \in HelperDiagnostics, sendOk \in BOOLEAN :
         /\ process' = "exited"
         /\ stdout' = out
         /\ stderr' = err
         /\ IF err # <<>> /\ ~Utf8Valid(err)
            THEN /\ Return("helpererror", lastLog)
                 /\ UNCHANGED written
            ELSE IF out # <<>>
            THEN /\ written' = Append(written, Response(out))
                 /\ Return(IF sendOk THEN "ok" ELSE "writefail",
                           StderrLog(err, lastLog))
            ELSE /\ sendOk
                 /\ Return("nooutput", StderrLog(err, lastLog))
                 /\ UNCHANGED written
    /\ UNCHANGED <<hadStale, running, wasRunning, server_socket, fileVars,
                   conn, chunksSent, clientClosed, sent, prevWritten,
                   request_data, operation, credential_data,
                   helperOp, helperIn>>

\* communicate raised TimeoutExpired after 30 seconds
HelperTimeout ==
    /\ UNCHANGED exceptProxy
    /\ pc = "communicate"
    /\ process' = Killed(process)
    /\ Return("timeout", lastLog)
    /\ UNCHANGED <<hadStale, running, wasRunning, server_socket, fileVars,
                   conn, chunksSent, clientClosed, sent, prevWritten,
                   request_data, operation, credential_data,
                   helperOp, helperIn, stdout, stderr, written>>

(***************************************************************************)
(* Shutdown.                                                               *)
(***************************************************************************)
\* the finally clause of the handler, when an exception unwinds through it
Unwound(sock) == IF sock = "open" THEN Closed(sock) ELSE sock

\* the process ends: its variables are gone, unread bytes are dropped
MemoryGone ==
    /\ rx' = Discard(rx)
    /\ request_data' = <<>>
    /\ operation' = <<>>
    /\ credential_data' = <<>>
    /\ stdout' = <<>>
    /\ stderr' = <<>>

\* SIGINT or SIGTERM when the script runs through main(), which installs
\* signal_handler: sys.exit(0).  SystemExit is no Exception and no
\* KeyboardInterrupt: it unwinds the handler's finally, leaves start()
\* without stop(), passes main()'s except Exception and ends the process.
Signal ==
    /\ UNCHANGED exceptProxy
    /\ pc # "exited"
    /\ pc' = "exited"
    /\ exitStatus' = ExitCode("signal")
    /\ client_socket' = Unwound(client_socket)
    /\ server_socket' = ClosedAtExit(server_socket)
    /\ lastLog' = "Received signal"
    /\ MemoryGone
    /\ UNCHANGED <<hadStale, running, wasRunning, fileVars, conn, chunksSent,
                   clientClosed, sent, prevWritten, process, helperOp,
                   helperIn, written, outcome>>

\* stop(): running = False, close the listening socket, cleanup_socket();
\* unlinkOk is whether os.unlink succeeds when the file exists
Stop(unlinkOk) ==
    /\ running' = FALSE
    /\ server_socket' = ClosedAtExit(server_socket)
    /\ pc' = "exited"
    /\ IF Exists(file)
       THEN IF unlinkOk
            THEN /\ file' = Unlinked(file)
                 /\ fileMode' = 0
                 /\ exitStatus' = ExitCode("return")
                 /\ lastLog' = "Removed existing socket"
            ELSE /\ exitStatus' = ExitCode("fatal")
                 /\ lastLog' = "Failed to remove socket"
                 /\ UNCHANGED fileVars
       ELSE /\ exitStatus' = ExitCode("return")
            /\ lastLog' = "Stopping git credential proxy"
            /\ UNCHANGED fileVars

\* SIGINT when GitCredentialProxy is driven by a caller other than main(),
\* under Python's default handler: KeyboardInterrupt unwinds the handler's
\* finally, the loop's except KeyboardInterrupt breaks, start() calls stop().
\* Either kind of interrupt ends the process, so a run has one at most.
KeyboardInterrupt ==
    /\ UNCHANGED exceptProxy
    /\ pc \in {"accept", "recv", "communicate"}
    /\ client_socket' = Unwound(client_socket)
    /\ \E unlinkOk \in BOOLEAN : Stop(unlinkOk)
    /\ MemoryGone
    /\ UNCHANGED <<hadStale, wasRunning, conn, chunksSent, clientClosed, sent,
                   prevWritten, process, helperOp, helperIn, written, outcome>>

Next ==
    \/ StartCleanup
    \/ Bind
    \/ Chmod
    \/ Accept
    \/ AcceptError
    \/ ClientSend
    \/ ClientClose
    \/ Recv
    \/ RecvError
    \/ HelperFinish
    \/ HelperTimeout
    \/ Signal
    \/ KeyboardInterrupt

Spec == Init /\ [][Next]_vars

(***************************************************************************)
(* Fairness: the steps the process takes on its own.  start() runs to the  *)
(* accept loop, recv returns once bytes are there or the peer has closed,  *)
(* communicate returns or times out after 30 seconds.  Clients and signals *)
(* are under no obligation.                                                *)
(***************************************************************************)
FairSpec ==
    /\ Spec
    /\ WF_vars(StartCleanup)
    /\ WF_vars(Bind)
    /\ WF_vars(Chmod)
    /\ WF_vars(Recv)
    /\ WF_vars(HelperFinish \/ HelperTimeout)

(***************************************************************************)
(* Helpers of the properties: the frame as the protocol describes it,      *)
(* computed on bytes.                                                      *)
(***************************************************************************)
IsPrefix(p, s) == Len(p) <= Len(s) /\ SubSeq(s, 1, Len(p)) = p

NoNewline(data) == \A i \in 1..Len(data) : data[i] # 10

\* length of the first line: the bytes before the first newline
FirstLineLen(data) ==
    CHOOSE n \in 0..Len(data) :
        /\ \A i \in 1..n : data[i] # 10
        /\ n = Len(data) \/ data[n + 1] = 10

\* the bytes after the first newline
AfterFirstLine(data) == SubSeq(data, FirstLineLen(data) + 2, Len(data))

\* the handler has returned to the accept loop
HandlerReturned == outcome # "none" /\ pc = "accept"

\* a helper was spawned for the connection
Spawned == process # "none"

(***************************************************************************)
(* C1  After a shutdown of a server that had reached Running (stop() or a  *)
(* termination signal, exit status 0), the socket file is gone.            *)
(***************************************************************************)
C1_SocketFileRemovedOnShutdown ==
    (pc = "exited" /\ wasRunning /\ exitStatus = 0) => file = "absent"

(***************************************************************************)
(* C2  When the helper of a well-formed request finished in time with      *)
(* non-empty output B, the bytes written to the connection are exactly B.  *)
(***************************************************************************)
C2_RelaysHelperOutput ==
    (HandlerReturned /\ process = "exited" /\ stdout # <<>>)
        => written = <<stdout>>

(***************************************************************************)
(* C3  A connection gets at most one response write, and it is closed      *)
(* whenever the handler is not running, whatever happened in it.           *)
(***************************************************************************)
C3_OneWriteThenClose ==
    /\ Len(written) <= 1
    /\ (conn > 0 /\ pc \notin {"recv", "communicate"})
           => client_socket = "closed"

C3_Witness ==
    /\ outcome = "writefail"
    /\ Len(written) = 1
    /\ client_socket = "closed"
    /\ pc = "accept"

(***************************************************************************)
(* C4  A frame without a newline, or whose trimmed first line is none of   *)
(* get, store, erase, gets no bytes, no helper, and a closed connection.   *)
(***************************************************************************)
TrimmedFirstLine(data) == Strip(Utf8Decode(SubSeq(data, 1, FirstLineLen(data))))

Malformed(data) ==
    \/ NoNewline(data)
    \/ /\ Utf8Valid(SubSeq(data, 1, FirstLineLen(data)))
       /\ TrimmedFirstLine(data) \notin Ops

C4_MalformedGetsNothing ==
    (HandlerReturned /\ outcome # "recverror" /\ Malformed(request_data))
        => /\ written = <<>>
           /\ ~Spawned
           /\ client_socket = "closed"

C4_Witness ==
    /\ outcome = "badop"
    /\ ~NoNewline(request_data)
    /\ written = <<>>
    /\ client_socket = "closed"

(***************************************************************************)
(* C5  A helper that does not finish within the timeout is killed, the     *)
(* client gets no response, and the helper is not running once the         *)
(* connection has been handled.                                            *)
(***************************************************************************)
C5_TimeoutKillsHelper ==
    outcome = "timeout"
        => /\ process = "killed"
           /\ written = <<>>
           /\ client_socket = "closed"

C5_Witness ==
    /\ outcome = "timeout"
    /\ process = "killed"
    /\ pc = "accept"

(***************************************************************************)
(* C6  With a file left at the socket path, start() removes it before      *)
(* bind, so bind never meets an existing path, and a running server has a  *)
(* socket file bound by this run.                                          *)
(***************************************************************************)
C6_StaleSocketReplaced ==
    hadStale
        => /\ pc = "bind" => file = "absent"
           /\ pc = "chmod" => file = "fresh"
           /\ pc \in {"accept", "recv", "communicate"}
                  => file = "fresh" /\ server_socket = "open"

C6_Witness ==
    /\ hadStale
    /\ pc = "accept"
    /\ running
    /\ file = "fresh"
    /\ server_socket = "open"

(***************************************************************************)
(* C7  What is written to a connection is the output of the helper spawned *)
(* for that connection, and that helper was fed the attributes of the      *)
(* bytes that connection's client sent: nothing of another connection.     *)
(***************************************************************************)
C7_NoCrossTalk ==
    pc # "exited"
        => /\ written = <<>> \/ written = <<stdout>>
           /\ IsPrefix(request_data, sent)
           /\ Spawned => helperIn = AfterFirstLine(request_data)

C7_Witness ==
    /\ conn = 2
    /\ prevWritten # <<>>
    /\ written # <<>>
    /\ written # prevWritten
    /\ helperIn = AfterFirstLine(sent)

(***************************************************************************)
(* C8  An error of one connection, or of accept, leaves the server in the  *)
(* accept loop: still running, still listening.                            *)
(***************************************************************************)
C8_ErrorsStayInLoop ==
    [][ /\ (outcome = "none" /\ outcome' \in PerConnectionErrors)
            => (pc' = "accept" /\ running' /\ server_socket' = "open")
        /\ (lastLog # lastLog' /\ lastLog' = "Error accepting connection")
            => (pc' = "accept" /\ running' /\ server_socket' = "open")
      ]_vars

C8_Witness ==
    /\ conn = 2
    /\ pc = "recv"
    /\ prevWritten = <<>>
    /\ lastLog = "Error handling request"
    /\ running

(***************************************************************************)
(* C9  When the stale file cannot be removed, or the socket cannot be      *)
(* created and bound, the accept loop is never entered and the process     *)
(* exits with a non-zero status.                                           *)
(***************************************************************************)
C9_StartFailureIsFatal ==
    [][ (pc \in {"start", "bind"} /\ pc' = "exited" /\ lastLog' = "Fatal error")
            => (exitStatus' # 0 /\ ~wasRunning' /\ conn' = 0)
      ]_vars

C9_Witness ==
    /\ pc = "exited"
    /\ lastLog = "Fatal error"
    /\ file = "stale"
    /\ exitStatus = 1

(***************************************************************************)
(* C10  Whatever an accepted client does, the server eventually closes the *)
(* connection and is back in the accept loop (or has shut down).           *)
(***************************************************************************)
C10_BadClientDoesNotBlock ==
    (pc = "recv") ~> (pc \in {"accept", "exited"})

(***************************************************************************)
(* C11  The lifecycle is Stopped, Binding, Running, Stopping, Stopped; in  *)
(* particular a server that leaves Running and exits with status 0 has     *)
(* gone through Stopping: accept loop left, listening socket closed,       *)
(* socket file deleted.                                                    *)
(***************************************************************************)
Lifecycle ==
    CASE pc \in {"start", "exited"} -> "Stopped"
      [] pc \in {"bind", "chmod"} -> "Binding"
      [] OTHER -> "Running"

C11_RunningLeftThroughStopping ==
    [][ (Lifecycle = "Running" /\ Lifecycle' # "Running" /\ exitStatus' = 0)
            => /\ Lifecycle' = "Stopped"
               /\ ~running'
               /\ server_socket' = "closed"
               /\ file' = "absent"
      ]_vars

(***************************************************************************)
(* C12  Connections are served one after the other: whenever the server    *)
(* is at accept, the connection before is closed and its helper is no      *)
(* longer running; a helper runs only for the open connection.             *)
(***************************************************************************)
C12_StrictlySequential ==
    /\ pc = "accept" => (client_socket # "open" /\ process # "running")
    /\ (process = "running" /\ pc # "exited")
           => (pc = "communicate" /\ client_socket = "open")

C12_Witness ==
    /\ pc = "accept"
    /\ conn = 1
    /\ process = "exited"
    /\ client_socket = "closed"
    /\ conn < MaxConns

(***************************************************************************)
(* C13  For a well-formed request, bytes are written if and only if the    *)
(* helper finished in time with non-empty stdout, whatever its stderr.     *)
(***************************************************************************)
C13_WrittenIffOutput ==
    (HandlerReturned /\ Spawned)
        => (written # <<>> <=> (process = "exited" /\ stdout # <<>>))

(***************************************************************************)
(* C20  The accept loop is entered only after unlink, bind and chmod: a    *)
(* running server has the file it bound at the socket path, with mode      *)
(* 0666, and a connection is accepted only by a server that ran all three. *)
(***************************************************************************)
C20_RunningHasSocketFile ==
    /\ pc \in {"accept", "recv", "communicate"}
           => /\ file = "fresh"
              /\ fileMode = SOCKET_MODE
              /\ server_socket = "open"
              /\ wasRunning
    /\ conn > 0 => wasRunning
    /\ (pc = "exited" /\ ~wasRunning) => conn = 0

C20_Witness ==
    /\ pc = "recv"
    /\ hadStale
    /\ file = "fresh"
    /\ fileMode = SOCKET_MODE

(***************************************************************************)
(* host-url-opener.py.  Strings are sequences of one-character strings.    *)
(***************************************************************************)
MAX_URL_LENGTH == 4096
ALLOWED_SCHEMES == { <<"h", "t", "t", "p">>, <<"h", "t", "t", "p", "s">>,
                     <<"f", "i", "l", "e">> }
\* the mode write_config sets
CONFIG_MODE == 384
\* the mode open(config_file, 'w') gives a new file (0666 masked by umask 022)
CREATE_MODE == 420

\* what uuid.uuid4() can return
Tokens == { <<"t", "1">>, <<"t", "2">> }

Bearer == <<"B", "e", "a", "r", "e", "r", " ">>

\* Authorization headers the clients send; <<>> when there is none
AuthHeaders == { <<>>, Bearer,
                 Bearer \o <<"t", "1">>, Bearer \o <<"t", "2">>,
                 Bearer \o <<"t", "1", "x">>,
                 <<"b", "e", "a", "r", "e", "r", " ", "t", "1">> }

\* url strings the clients send
UrlTexts == { <<>>,
              <<"h", "t", "t", "p", ":", "/", "/", "a">>,
              <<"H", "T", "T", "P", "S", ":", "/", "/", "a">>,
              <<"f", "i", "l", "e", ":", "/", "/", "/", "a">>,
              <<"f", "t", "p", ":", "/", "/", "a">>,
              <<"/", "/", "a">>,
              <<"1", "h", "t", "t", "p", ":", "a">>,
              <<"-", "a">>,
              <<"h", "t", "t", "p", ":", "/", "/", "a", "%", "2", "0">> }

\* the values of the url field of a JSON body: t is the JSON type ("missing"
\* when the object has no url), text a string's characters, num a number's
\* value or a list's length
UrlFields ==
    [t : {"str"}, text : UrlTexts, num : {0}]
        \cup [t : {"missing", "null"}, text : {<<>>}, num : {0}]
        \cup [t : {"num", "list"}, text : {<<>>}, num : {0, 1}]

NoUrl == [t |-> "missing", text |-> <<>>, num |-> 0]

\* request bodies: kind "none", "badutf8", "badjson" or "json"; top is the
\* type of the JSON document, size the body's length in bytes
NoBody == [kind |-> "none", top |-> "none", url |-> NoUrl, size |-> 0]

Bodies ==
    [kind : {"badutf8", "badjson"}, top : {"none"}, url : {NoUrl}, size : {9}]
        \cup [kind : {"json"}, top : {"list", "str", "null"}, url : {NoUrl},
              size : {4}]
        \cup [kind : {"json"}, top : {"obj"}, url : UrlFields, size : {30}]
        \cup { [kind |-> "json", top |-> "obj",
                url |-> [t |-> "str",
                         text |-> <<"h", "t", "t", "p", ":", "/", "/", "a">>,
                         num |-> 0],
                size |-> 5000] }

\* Content-Length as sent: clenText is "absent", "digits" or "junk"; a
\* numeric one is the body's size or one byte short of it
PostRequests ==
    { [method |-> "POST", path |-> p, auth |-> a,
       clenText |-> IF k \in {"exact", "short"} THEN "digits" ELSE k,
       clen |-> CASE k = "exact" -> b.size
                  [] k = "short" -> b.size - 1
                  [] OTHER -> 0,
       body |-> b] :
        p \in {"/open", "/health"}, a \in AuthHeaders,
        k \in {"absent", "junk", "exact", "short"}, b \in Bodies }

GetRequests ==
    { [method |-> "GET", path |-> p, auth |-> <<>>, clenText |-> "absent",
       clen |-> 0, body |-> NoBody] : p \in {"/open", "/health", "/x"} }

Requests == PostRequests \cup GetRequests

StartsWith(str, prefix) ==
    Len(str) >= Len(prefix) /\ SubSeq(str, 1, Len(prefix)) = prefix

Letters == {"a", "e", "f", "h", "i", "l", "p", "s", "t",
            "H", "P", "S", "T"}

\* string.ascii_letters + string.digits + '+-.'
SchemeChars == Letters \cup {"0", "1", "2", "+", "-", "."}

\* str.lower() on one character
Lower(c) ==
    CASE c = "H" -> "h" [] c = "P" -> "p" [] c = "S" -> "s" [] c = "T" -> "t"
      [] OTHER -> c

\* url.find(':'), counted from 1; 0 when there is none
FindColon(url) ==
    IF \E i \in 1..Len(url) : url[i] = ":"
    THEN CHOOSE i \in 1..Len(url) :
             url[i] = ":" /\ \A j \in 1..(i - 1) : url[j] # ":"
    ELSE 0

\* urlparse(url).scheme
SchemeOf(url) ==
    IF /\ FindColon(url) > 1
       /\ url[1] \in Letters
       /\ \A i \in 1..(FindColon(url) - 1) : url[i] \in SchemeChars
    THEN [i \in 1..(FindColon(url) - 1) |-> Lower(url[i])]
    ELSE <<>>

\* not url
Falsy(field) ==
    \/ field.t \in {"missing", "null"}
    \/ field.t = "str" /\ field.text = <<>>
    \/ field.t \in {"num", "list"} /\ field.num = 0

\* int(self.headers.get('Content-Length', 0)); -1 stands for ValueError
ContentLength(req) ==
    CASE req.clenText = "absent" -> 0
      [] req.clenText = "digits" -> req.clen
      [] OTHER -> -1

\* a token check that lets every bearer through
TokenMatches_Any(token, expected) == TRUE

\* token != AUTH_TOKEN is refused
TokenMatches(token, expected) == token = expected

\* format % args with no args raises when format has a '%'
FormatRaises(text) == \E i \in 1..Len(text) : text[i] = "%"

\* do_POST: the status lines sent and the commands run; run is how
\* subprocess.run(['open', url]) ends: "ok", "failed", "timeout", "notfound".
\* No status line means an exception left do_POST.
PostResult(req, expected, run) ==
    LET none == <<>>
        only(code) == [statuses |-> <<code>>, opened |-> none]
        url == req.body.url
        argv == <<"open", url.text>>
    IN IF req.path # "/open" THEN only(404)
       ELSE IF ~StartsWith(req.auth, Bearer) THEN only(401)
       ELSE IF ~TokenMatches(Drop(req.auth, Len(Bearer)), expected)
            THEN only(403)
       ELSE IF ContentLength(req) < 0
            THEN [statuses |-> none, opened |-> none]
       ELSE IF ContentLength(req) > MAX_URL_LENGTH THEN only(413)
       ELSE IF req.body.kind # "json" \/ ContentLength(req) < req.body.size
            THEN only(400)
       ELSE IF req.body.top # "obj"
            THEN [statuses |-> none, opened |-> none]
       ELSE IF Falsy(url) THEN only(400)
       ELSE IF url.t = "num" THEN [statuses |-> none, opened |-> none]
       ELSE IF (IF url.t = "str" THEN Len(url.text) ELSE url.num)
                   > MAX_URL_LENGTH
            THEN only(413)
       ELSE IF url.t # "str" THEN only(400)
       ELSE IF SchemeOf(url.text) \notin ALLOWED_SCHEMES THEN only(400)
       ELSE CASE run = "notfound" -> only(500)
              [] run = "failed" -> [statuses |-> <<500>>, opened |-> <<argv>>]
              [] run = "timeout" -> [statuses |-> <<504>>, opened |-> <<argv>>]
              [] OTHER ->
                   [statuses |-> IF FormatRaises(url.text)
                                 THEN <<200, 500>> ELSE <<200>>,
                    opened |-> <<argv>>]

\* how subprocess.run(['open', url]) can end
RunOutcomes == {"ok", "failed", "timeout", "notfound"}

\* the request gets as far as subprocess.run
ReachesRun(req, expected) ==
    /\ req.method = "POST"
    /\ PostResult(req, expected, "notfound").statuses = <<500>>

\* do_GET
GetResult(req) ==
    [statuses |-> IF req.path = "/health" THEN <<200>> ELSE <<404>>,
     opened |-> <<>>]

OpenerInit ==
    /\ uPc = "main"
    /\ uArgs \in {"ok", "usage", "missing", "notdir"}
    /\ uExitStatus = -1
    /\ uWasServing = FALSE
    /\ AUTH_TOKEN = <<>>
    /\ confFile \in {"absent", "stale"}
    /\ confMode = IF confFile = "stale" THEN CONFIG_MODE ELSE 0
    /\ uRequest = NoRequest
    /\ uStatuses = <<>>
    /\ uOpened = <<>>
    /\ ProxyOff
    /\ RewriterOff
    /\ StripOff
    /\ CallerOff
    /\ DetectOff

\* main(): the checks of sys.argv and of the config directory
UCheckArgs ==
    /\ uPc = "main"
    /\ IF uArgs = "ok"
       THEN /\ uPc' = "bind"
            /\ UNCHANGED uExitStatus
       ELSE /\ uPc' = "exited"
            /\ uExitStatus' = 1
    /\ UNCHANGED <<uArgs, uWasServing, AUTH_TOKEN, confFile, confMode,
                   uRequest, uStatuses, uOpened>>
    /\ UNCHANGED exceptOpener

\* main(): AUTH_TOKEN = str(uuid.uuid4()); HTTPServer(('127.0.0.1', 0), ...)
UCreateServer ==
    /\ uPc = "bind"
    /\ \E token \in Tokens, bound \in BOOLEAN :
         /\ AUTH_TOKEN' = token
         /\ IF bound
            THEN /\ uPc' = "write_config"
                 /\ UNCHANGED uExitStatus
            ELSE /\ uPc' = "exited"
                 /\ uExitStatus' = 1
    /\ UNCHANGED <<uArgs, uWasServing, confFile, confMode,
                   uRequest, uStatuses, uOpened>>
    /\ UNCHANGED exceptOpener

\* write_config: open, write, chmod 0600; failing names the call that raises
UWriteConfig ==
    /\ uPc = "write_config"
    /\ \E failing \in {"none", "open", "chmod"} :
         /\ IF failing = "open"
            THEN UNCHANGED <<confFile, confMode>>
            ELSE /\ confFile' = "current"
                 /\ confMode' = IF failing = "chmod"
                                THEN (IF confFile = "absent"
                                      THEN CREATE_MODE ELSE confMode)
                                ELSE CONFIG_MODE
         /\ IF failing = "none"
            THEN /\ uPc' = "ready"
                 /\ UNCHANGED uExitStatus
            ELSE /\ uPc' = "exited"
                 /\ uExitStatus' = 1
    /\ UNCHANGED <<uArgs, uWasServing, AUTH_TOKEN, uRequest,
                   uStatuses, uOpened>>
    /\ UNCHANGED exceptOpener

\* main(): server.serve_forever()
UServeForever ==
    /\ uPc = "ready"
    /\ uPc' = "serving"
    /\ uWasServing' = TRUE
    /\ UNCHANGED <<uArgs, uExitStatus, AUTH_TOKEN, confFile, confMode,
                   uRequest, uStatuses, uOpened>>
    /\ UNCHANGED exceptOpener

\* one request through do_POST or do_GET
UHandleRequest ==
    /\ uPc = "serving"
    /\ \E req \in Requests :
       \E run \in IF ReachesRun(req, AUTH_TOKEN) THEN RunOutcomes ELSE {"ok"} :
         LET result == IF req.method = "POST"
                       THEN PostResult(req, AUTH_TOKEN, run)
                       ELSE GetResult(req)
         IN /\ uRequest' = req
            /\ uStatuses' = result.statuses
            /\ uOpened' = result.opened
    /\ UNCHANGED <<uPc, uArgs, uExitStatus, uWasServing, AUTH_TOKEN,
                   confFile, confMode>>
    /\ UNCHANGED exceptOpener

\* SIGINT in serve_forever: except KeyboardInterrupt, server.shutdown(),
\* config_file.unlink()
UKeyboardInterrupt ==
    /\ uPc = "serving"
    /\ uPc' = "exited"
    /\ uExitStatus' = 0
    /\ confFile' = "absent"
    /\ confMode' = 0
    /\ UNCHANGED <<uArgs, uWasServing, AUTH_TOKEN, uRequest,
                   uStatuses, uOpened>>
    /\ UNCHANGED exceptOpener

\* SIGTERM: main() installs no handler, the process is terminated
UTerminated ==
    /\ uPc \notin {"off", "exited"}
    /\ uPc' = "exited"
    /\ uExitStatus' = 143
    /\ UNCHANGED <<uArgs, uWasServing, AUTH_TOKEN, confFile, confMode,
                   uRequest, uStatuses, uOpened>>
    /\ UNCHANGED exceptOpener

OpenerNext ==
    \/ UCheckArgs
    \/ UCreateServer
    \/ UWriteConfig
    \/ UServeForever
    \/ UHandleRequest
    \/ UKeyboardInterrupt
    \/ UTerminated

OpenerSpec == OpenerInit /\ [][OpenerNext]_<<openerVars, vars, rewriterVars, stripVars, callerVars, detectVars>>

(***************************************************************************)
(* Claims about host-url-opener.py.                                        *)
(***************************************************************************)
\* the text starts with one of the three schemes, in either case, and ':'
HasAllowedScheme(text) ==
    \E scheme \in ALLOWED_SCHEMES :
        /\ Len(text) > Len(scheme)
        /\ text[Len(scheme) + 1] = ":"
        /\ \A i \in 1..Len(scheme) : Lower(text[i]) = scheme[i]

\* C14: 'open' is executed only for a POST to /open whose Authorization
\* header is 'Bearer ' followed by exactly the startup token and whose body
\* is a JSON object with a string url of at most 4096 characters and scheme
\* http, https or file; it is then run once, with the url as its one argument.
C14_OpenOnlyForAuthorizedRequests ==
    uOpened # <<>> =>
        /\ uRequest.method = "POST"
        /\ uRequest.path = "/open"
        /\ uRequest.auth = Bearer \o AUTH_TOKEN
        /\ uRequest.body.kind = "json"
        /\ uRequest.body.top = "obj"
        /\ uRequest.body.url.t = "str"
        /\ Len(uRequest.body.url.text) <= MAX_URL_LENGTH
        /\ HasAllowedScheme(uRequest.body.url.text)
        /\ uOpened = << <<"open", uRequest.body.url.text>> >>

\* an authorized request opened its url and was answered 200
C14_Witness ==
    /\ uOpened # <<>>
    /\ uStatuses = <<200>>
    /\ uRequest.auth = Bearer \o AUTH_TOKEN

\* C15: the configuration file is written (mode 0600) before any request is
\* served, exists while the bridge serves, and is gone once a bridge that
\* served has shut down, by keyboard interrupt or by a termination signal.
C15_ConfigFileLifecycle ==
    /\ uPc = "serving" => (confFile = "current" /\ confMode = CONFIG_MODE)
    /\ uStatuses # <<>> => uWasServing
    /\ (uPc = "exited" /\ uWasServing) => confFile = "absent"

(***************************************************************************)
(* detect-remote-mcps.py, main().  A file is a sequence of lines, a line a *)
(* sequence of characters.  A JSON document is written as the three lines  *)
(* "{", a letter naming what it holds, "}":                                *)
(*   R  an opencode config with a remote MCP server                        *)
(*   N  an opencode config with no remote MCP server                       *)
(*   P  the mcp-proxy config generate_mcp_proxy_config returns             *)
(*   D  the config update_opencode_config returns                          *)
(***************************************************************************)
Doc(letter) == << <<"{">>, <<letter>>, <<"}">> >>

File(lines) == [exists |-> TRUE, lines |-> lines]

\* the paths of the command lines below
Place == [ SrcDir |-> "src",
           CacheDir |-> "cache",
           DockerDir |-> "dock",
           MainName |-> "opencode.jsonc",
           OtherName |-> "my.jsonc" ]

Path(dir, name) == [dir |-> dir, name |-> name]

Paths == { Path(Place.SrcDir, Place.MainName), Path(Place.SrcDir, Place.OtherName),
           Path(Place.CacheDir, "p.json"),
           Path(Place.DockerDir, Place.MainName), Path(Place.DockerDir, Place.OtherName) }

\* os.path.dirname
Dirname(path) == path.dir

\* str.strip() on a line
LineStrip(line) ==
    LET blank(c) == c \in {" ", "\t"}
        idx == { i \in 1..Len(line) : ~blank(line[i]) }
    IN IF idx = {} THEN <<>>
       ELSE LET lo == CHOOSE i \in idx : \A j \in idx : i <= j
                hi == CHOOSE i \in idx : \A j \in idx : i >= j
            IN SubSeq(line, lo, hi)

\* write_jsonc: the test that keeps a line among the leading comments
IsLeadingLine(line) ==
    LET stripped == LineStrip(line)
    IN \/ StartsWith(stripped, <<"/", "/">>)
       \/ StartsWith(stripped, <<"/", "*">>)
       \/ stripped = <<>>

\* original.split('\n') of a file whose every line ends in a newline
SplitLines(lines) == lines \o << <<>> >>

\* write_jsonc: the loop that collects leading_comments
RECURSIVE LeadingComments(_)
LeadingComments(pieces) ==
    IF pieces = <<>> \/ ~IsLeadingLine(Head(pieces)) THEN <<>>
    ELSE <<Head(pieces)>> \o LeadingComments(Tail(pieces))

\* write_jsonc(file_path, config): the text left in file_path
WrittenJsonc(old, letter) ==
    LET leading_comments == IF old.exists
                            THEN LeadingComments(SplitLines(old.lines))
                            ELSE <<>>
    IN File(leading_comments \o Doc(letter))

\* a one-line comment, or a block comment opened and closed on the line
IsWholeLineComment(line) ==
    LET stripped == LineStrip(line)
    IN \/ stripped = <<>>
       \/ StartsWith(stripped, <<"/", "/">>)
       \/ /\ StartsWith(stripped, <<"/", "*">>)
          /\ Len(stripped) >= 4
          /\ SubSeq(stripped, Len(stripped) - 1, Len(stripped)) = <<"*", "/">>

\* parse_jsonc: the document once the comments are stripped; "invalid" when
\* json.loads raises
ParseJsonc(lines) ==
    LET clean == SelectSeq(lines, LAMBDA line : ~IsWholeLineComment(line))
    IN IF \E letter \in {"R", "N", "P", "D"} : clean = Doc(letter)
       THEN clean[2][1]
       ELSE "invalid"

\* detect_remote_mcps(config) is not empty
HasRemoteMcps(letter) == letter = "R"

Sample == [ CommentA |-> <<"/", "/", " ", "a">>,
            CommentB |-> <<" ", "/", "*", " ", "b", " ", "*", "/">>,
            Blank |-> <<>>,
            InnerComment |-> <<" ", " ", "/", "/", " ", "i">> ]

\* what the top of a config file can be
Tops == { <<>>, <<Sample.CommentA>>, <<Sample.CommentA, Sample.Blank, Sample.CommentB>>, <<Sample.Blank>> }

\* contents of the file given as --config
SourceFiles ==
    { File(top \o << <<"{">>, Sample.InnerComment, <<letter>>, <<"}">> >>) :
          top \in Tops, letter \in {"R", "N"} }
        \cup { File(<<Sample.CommentA, <<"x">>>>), Absent }

\* contents of a Docker config left by an earlier run or by the user
DockerFiles == { Absent, File(<<>>), File(Doc("D")),
                 File(<<<<"/", "/", " ", "d">>>> \o Doc("D")) }

\* the command lines
ArgsSets ==
    { a \in [config : {Path(Place.SrcDir, Place.MainName), Path(Place.SrcDir, Place.OtherName)},
             output : Paths, docker_config : Paths, dry_run : BOOLEAN] :
        /\ a.output \in {Path(Place.CacheDir, "p.json"), a.config}
        /\ a.docker_config \in {Path(Place.DockerDir, Place.MainName),
                                Path(Place.DockerDir, Place.OtherName), a.config} }

RewriterInit ==
    /\ rPc = "main"
    /\ rExitStatus = -1
    /\ config = "none"
    /\ args \in ArgsSets
    /\ \E source \in SourceFiles, other \in {Absent, File(Doc("N"))},
          cache \in {Absent, File(Doc("P"))}, docker \in DockerFiles,
          cacheDir \in BOOLEAN, dockerDir \in BOOLEAN :
         LET otherName == IF args.config.name = Place.MainName
                          THEN Place.OtherName ELSE Place.MainName
             dockerPath == IF args.docker_config.dir = Place.DockerDir
                           THEN args.docker_config
                           ELSE Path(Place.DockerDir, Place.MainName)
         IN /\ files = [p \in Paths |->
                          CASE p = args.config -> source
                            [] p = Path(Place.SrcDir, otherName) -> other
                            [] p = Path(Place.CacheDir, "p.json") -> cache
                            [] p = dockerPath -> docker
                            [] OTHER -> Absent]
            /\ dirs = {Place.SrcDir}
                        \cup (IF cacheDir \/ cache.exists
                              THEN {Place.CacheDir} ELSE {})
                        \cup (IF dockerDir \/ docker.exists
                              THEN {Place.DockerDir} ELSE {})
    /\ dirs0 = dirs
    /\ files0 = files
    /\ ProxyOff
    /\ OpenerOff
    /\ StripOff
    /\ CallerOff
    /\ DetectOff

\* the variables of the scripts other than detect-remote-mcps.py
exceptRewriter == <<vars, openerVars, stripVars, callerVars, detectVars>>

\* an uncaught exception, or main() returning status
RExit(status) ==
    /\ rPc' = "exited"
    /\ rExitStatus' = status

\* main(): os.makedirs(os.path.dirname(args.output), exist_ok=True)
RMakeCacheDir ==
    /\ rPc = "main"
    /\ dirs' = dirs \cup {Dirname(args.output)}
    /\ rPc' = "parse"
    /\ UNCHANGED <<rExitStatus, args, files, dirs0, files0, config>>
    /\ UNCHANGED exceptRewriter

\* main(): config = parse_jsonc(args.config)
RParse ==
    /\ rPc = "parse"
    /\ IF \/ ~files[args.config].exists
          \/ ParseJsonc(files[args.config].lines) = "invalid"
       THEN /\ RExit(1)
            /\ UNCHANGED config
       ELSE /\ config' = ParseJsonc(files[args.config].lines)
            /\ rPc' = "detect"
            /\ UNCHANGED rExitStatus
    /\ UNCHANGED <<args, dirs, files, dirs0, files0>>
    /\ UNCHANGED exceptRewriter

\* main(): remote_mcps = detect_remote_mcps(config); return 1 when empty
RDetect ==
    /\ rPc = "detect"
    /\ IF HasRemoteMcps(config)
       THEN /\ rPc' = "output"
            /\ UNCHANGED rExitStatus
       ELSE RExit(1)
    /\ UNCHANGED <<args, dirs, files, dirs0, files0, config>>
    /\ UNCHANGED exceptRewriter

\* main(): the mcp-proxy config is printed (--dry-run) or written
RWriteOutput ==
    /\ rPc = "output"
    /\ files' = IF args.dry_run THEN files
                ELSE [files EXCEPT ![args.output] = File(Doc("P"))]
    /\ rPc' = "copy"
    /\ UNCHANGED <<rExitStatus, args, dirs, dirs0, files0, config>>
    /\ UNCHANGED exceptRewriter

\* the entries of source_dir that the loop copies
CopiedNames(fs, source_dir) ==
    { p.name : p \in { q \in Paths : /\ q.dir = source_dir
                                     /\ fs[q].exists
                                     /\ q.name # Place.MainName } }

\* main(): os.makedirs(docker_config_dir) and the copy of the source
\* directory, neither with --dry-run; shutil.copy2 raises SameFileError when
\* both directories are the same
RCopy ==
    /\ rPc = "copy"
    /\ LET docker_config_dir == Dirname(args.docker_config)
           source_dir == Dirname(args.config)
           items == CopiedNames(files, source_dir)
       IN IF args.dry_run
          THEN /\ rPc' = "docker"
               /\ UNCHANGED <<rExitStatus, dirs, files>>
          ELSE /\ dirs' = dirs \cup {docker_config_dir}
               /\ IF items # {} /\ docker_config_dir = source_dir
                  THEN /\ RExit(1)
                       /\ UNCHANGED files
                  ELSE /\ files' = [p \in Paths |->
                                      IF /\ p.dir = docker_config_dir
                                         /\ p.name \in items
                                      THEN files[Path(source_dir, p.name)]
                                      ELSE files[p]]
                       /\ rPc' = "docker"
                       /\ UNCHANGED rExitStatus
    /\ UNCHANGED <<args, dirs0, files0, config>>
    /\ UNCHANGED exceptRewriter

\* main(): update_opencode_config, then the Docker config is printed
\* (--dry-run) or written by write_jsonc; return 0
RWriteDocker ==
    /\ rPc = "docker"
    /\ config' = "D"
    /\ files' = IF args.dry_run THEN files
                ELSE [files EXCEPT ![args.docker_config] =
                          WrittenJsonc(files[args.docker_config], "D")]
    /\ RExit(0)
    /\ UNCHANGED <<args, dirs, dirs0, files0>>
    /\ UNCHANGED exceptRewriter

RewriterNext ==
    \/ RMakeCacheDir
    \/ RParse
    \/ RDetect
    \/ RWriteOutput
    \/ RCopy
    \/ RWriteDocker

RewriterSpec ==
    RewriterInit /\ [][RewriterNext]_<<rewriterVars, vars, openerVars, stripVars, callerVars, detectVars>>

(***************************************************************************)
(* Claims about detect-remote-mcps.py, main().                             *)
(***************************************************************************)
\* the line is a comment: its first characters after the indentation are
\* // or /*
IsCommentLine(line) ==
    \/ StartsWith(LineStrip(line), <<"/", "/">>)
    \/ StartsWith(LineStrip(line), <<"/", "*">>)

\* the comment lines at the very top of a file: those before its first line
\* that is neither a comment nor blank
RECURSIVE TopCommentLines(_)
TopCommentLines(lines) ==
    IF lines = <<>> THEN <<>>
    ELSE IF IsCommentLine(Head(lines))
         THEN <<Head(lines)>> \o TopCommentLines(Tail(lines))
    ELSE IF LineStrip(Head(lines)) = <<>>
         THEN TopCommentLines(Tail(lines))
    ELSE <<>>

\* the run wrote the rewritten configuration
WroteDockerConfig ==
    /\ rPc = "exited"
    /\ rExitStatus = 0
    /\ ~args.dry_run

\* C16: when the rewritten configuration is written, the comment lines at the
\* very top of the source configuration are, verbatim and in order, the first
\* comment lines of the output file, whatever the output path held before.
C16_LeadingCommentsPreserved ==
    WroteDockerConfig =>
        IsPrefix(TopCommentLines(files0[args.config].lines),
                 TopCommentLines(files[args.docker_config].lines))

\* C17: at every point of every run the file given as --config holds what it
\* held before the run.
C17_SourceNeverMutated ==
    rPc # "off" => files[args.config] = files0[args.config]

\* C19: with --dry-run no file and no directory is created, modified or
\* deleted.
C19_DryRunChangesNothing ==
    (rPc # "off" /\ args.dry_run) => (files = files0 /\ dirs = dirs0)

(***************************************************************************)
(* detect-remote-mcps.py, strip_jsonc_comments.  The input is built from    *)
(* tokens: JSON punctuation and numbers ("json"), string literals           *)
(* ("string"), comments ("comment") and trailing commas ("tcomma").         *)
(***************************************************************************)
\* elements of an array, pairs of an object
MaxElems == 2

Token(kind, text) == [kind |-> kind, text |-> text]

Char == [ Quote |-> "\"",
          Backslash |-> "\\",
          Newline |-> "\n" ]

StringLiteral(chars) == Token("string", <<Char.Quote>> \o chars \o <<Char.Quote>>)

\* the values: string literals holding comment markers, an escaped quote, a
\* comma before a closing bracket, and a number
Elements == { StringLiteral(<<"a">>),
              StringLiteral(<<"/", "/", "a">>),
              StringLiteral(<<"/", "*", "a", "*", "/">>),
              StringLiteral(<<Char.Backslash, Char.Quote>>),
              StringLiteral(<<",", "]">>),
              StringLiteral(<<",", " ", "}">>),
              Token("json", <<"1">>) }

\* a comment with what follows it, or nothing
Comments == { <<>>,
              <<Token("comment", <<"/", "/", "c">>), Token("json", <<Char.Newline>>)>>,
              <<Token("comment", <<"/", "/", Char.Quote>>),
                Token("json", <<Char.Newline>>)>>,
              <<Token("comment", <<"/", "*", "c", "*", "/">>)>>,
              <<Token("comment", <<"/", "*", Char.Quote, ",", "]", "*", "/">>)>> }

RECURSIVE Joined(_, _)
\* the elements with commas between them, each after key when in an object
Joined(elems, key) ==
    IF elems = <<>> THEN <<>>
    ELSE key \o <<Head(elems)>>
             \o (IF Len(elems) > 1 THEN <<Token("json", <<",">>)>> ELSE <<>>)
             \o Joined(Tail(elems), key)

\* an array or an object of the elements, then a comment, a trailing comma,
\* a comment, white space and the closing bracket
Document(object, elems, before, comma, after, space) ==
    <<Token("json", <<IF object THEN "{" ELSE "[">>)>>
        \o Joined(elems, IF object
                         THEN <<StringLiteral(<<"k">>), Token("json", <<":">>)>>
                         ELSE <<>>)
        \o before
        \o (IF comma THEN <<Token("tcomma", <<",">>)>> ELSE <<>>)
        \o after
        \o (IF space THEN <<Token("json", <<" ">>)>> ELSE <<>>)
        \o <<Token("json", <<IF object THEN "}" ELSE "]">>)>>

Documents ==
    { Document(object, elems, before, comma, after, space) :
          object \in BOOLEAN,
          elems \in UNION { [1..n -> Elements] : n \in 1..MaxElems },
          before \in Comments, comma \in BOOLEAN,
          after \in {<<>>, <<Token("comment", <<"/", "*", "c", "*", "/">>)>>},
          space \in BOOLEAN }

RECURSIVE Text(_)
\* the characters of the tokens
Text(tokens) ==
    IF tokens = <<>> THEN <<>>
    ELSE Head(tokens).text \o Text(Tail(tokens))

\* the while loop: position i in content, the four flags, the characters kept
RECURSIVE StripLoop(_, _, _, _, _, _, _)
StripLoop(content, i, in_string, escape_next, in_single_line_comment, in_multi_line_comment, kept) ==
    IF i > Len(content) THEN kept
    ELSE LET char == content[i]
             next_char == IF i + 1 <= Len(content) THEN content[i + 1]
                          ELSE "None"
         IN CASE in_string /\ escape_next ->
                   StripLoop(content, i + 1, in_string, FALSE,
                             in_single_line_comment, in_multi_line_comment,
                             Append(kept, char))
              [] in_string /\ ~escape_next /\ char = Char.Backslash ->
                   StripLoop(content, i + 1, in_string, TRUE,
                             in_single_line_comment, in_multi_line_comment,
                             Append(kept, char))
              [] OTHER ->
                 IF /\ char = Char.Quote
                    /\ ~in_single_line_comment
                    /\ ~in_multi_line_comment
                 THEN StripLoop(content, i + 1, ~in_string, escape_next,
                                in_single_line_comment, in_multi_line_comment,
                                Append(kept, char))
                 ELSE IF in_string
                 THEN StripLoop(content, i + 1, in_string, escape_next,
                                in_single_line_comment, in_multi_line_comment,
                                Append(kept, char))
                 ELSE IF in_multi_line_comment
                 THEN IF char = "*" /\ next_char = "/"
                      THEN StripLoop(content, i + 2, in_string, escape_next,
                                     in_single_line_comment, FALSE, kept)
                      ELSE StripLoop(content, i + 1, in_string, escape_next,
                                     in_single_line_comment, TRUE, kept)
                 ELSE IF in_single_line_comment
                 THEN IF char = Char.Newline
                      THEN StripLoop(content, i + 1, in_string, escape_next,
                                     FALSE, in_multi_line_comment,
                                     Append(kept, char))
                      ELSE StripLoop(content, i + 1, in_string, escape_next,
                                     TRUE, in_multi_line_comment, kept)
                 ELSE IF char = "/" /\ next_char = "/"
                 THEN StripLoop(content, i + 2, in_string, escape_next,
                                TRUE, in_multi_line_comment, kept)
                 ELSE IF char = "/" /\ next_char = "*"
                 THEN StripLoop(content, i + 2, in_string, escape_next,
                                in_single_line_comment, TRUE, kept)
                 ELSE StripLoop(content, i + 1, in_string, escape_next,
                                in_single_line_comment, in_multi_line_comment,
                                Append(kept, char))

\* \s of the regular expression, for the characters of the documents
RegexSpace == {" ", Char.Newline, "\t", "\r"}

\* the text from position i on matches ,(\s*[}\]])
TrailingCommaAt(text, i) ==
    /\ text[i] = ","
    /\ \E j \in (i + 1)..Len(text) :
         /\ text[j] \in {"}", "]"}
         /\ \A k \in (i + 1)..(j - 1) : text[k] \in RegexSpace

\* re.sub(r',(\s*[}\]])', r'\1', content)
RECURSIVE SubTrailingCommas(_, _)
SubTrailingCommas(text, i) ==
    IF i > Len(text) THEN <<>>
    ELSE (IF TrailingCommaAt(text, i) THEN <<>> ELSE <<text[i]>>)
             \o SubTrailingCommas(text, i + 1)

StripInit ==
    /\ sPc = "loop"
    /\ sTokens \in Documents
    /\ sContent = Text(sTokens)
    /\ sResult = <<>>
    /\ sReturned = <<>>
    /\ ProxyOff
    /\ OpenerOff
    /\ RewriterOff
    /\ CallerOff
    /\ DetectOff

\* the variables of the scripts other than this function
exceptStrip == <<vars, openerVars, rewriterVars, callerVars, detectVars>>

\* strip_jsonc_comments: the while loop and ''.join(result)
SLoop ==
    /\ sPc = "loop"
    /\ sResult' = StripLoop(sContent, 1, FALSE, FALSE, FALSE, FALSE, <<>>)
    /\ sPc' = "sub"
    /\ UNCHANGED <<sTokens, sContent, sReturned>>
    /\ UNCHANGED exceptStrip

\* strip_jsonc_comments: re.sub and return
SSub ==
    /\ sPc = "sub"
    /\ sReturned' = SubTrailingCommas(sResult, 1)
    /\ sPc' = "returned"
    /\ UNCHANGED <<sTokens, sContent, sResult>>
    /\ UNCHANGED exceptStrip

StripNext ==
    \/ SLoop
    \/ SSub

StripSpec ==
    StripInit /\ [][StripNext]_<<stripVars, vars, openerVars, rewriterVars, callerVars, detectVars>>

(***************************************************************************)
(* Claims about strip_jsonc_comments.                                      *)
(***************************************************************************)
\* the input without its comments and trailing commas
Expected(tokens) ==
    Text(SelectSeq(tokens, LAMBDA t : t.kind \in {"json", "string"}))

\* C18: for valid JSON plus comments and trailing commas the value returned
\* is the input with exactly the comments outside string literals and the
\* trailing commas removed; every string literal is unchanged.
C18_OnlyCommentsAndTrailingCommasRemoved ==
    sPc = "returned" => sReturned = Expected(sTokens)

MaxCalls == 3

\* cleanup_socket(): the file, its mode and the log line it leaves; raised is
\* whether os.unlink raised OSError
CleanedUp(raised) ==
    IF Exists(file)
    THEN IF raised
         THEN /\ lastLog' = "Failed to remove socket"
              /\ UNCHANGED fileVars
         ELSE /\ file' = Unlinked(file)
              /\ fileMode' = 0
              /\ lastLog' = "Removed existing socket"
    ELSE UNCHANGED <<fileVars, lastLog>>

\* a call of cleanup_socket()
CallCleanupSocket ==
    /\ pc # "exited"
    /\ calls < MaxCalls
    /\ calls' = calls + 1
    /\ \E unlinkFails \in BOOLEAN :
         LET raised == Exists(file) /\ unlinkFails
         IN /\ CleanedUp(raised)
            /\ lastCall' = [name |-> "cleanup_socket", found |-> Exists(file),
                            raised |-> raised]
    /\ UNCHANGED <<procVars, clientVars, handlerVars>>
    /\ UNCHANGED <<openerVars, rewriterVars, stripVars, detectVars>>

\* a call of stop(): running = False, server_socket.close() when there is a
\* socket, cleanup_socket(); the lines "Stopping git credential proxy" and
\* what cleanup_socket logs
CallStop ==
    /\ pc # "exited"
    /\ calls < MaxCalls
    /\ calls' = calls + 1
    /\ running' = FALSE
    /\ server_socket' = ClosedAtExit(server_socket)
    /\ \E unlinkFails \in BOOLEAN :
         LET raised == Exists(file) /\ unlinkFails
         IN /\ IF Exists(file)
               THEN CleanedUp(raised)
               ELSE /\ lastLog' = "Stopping git credential proxy"
                    /\ UNCHANGED fileVars
            /\ lastCall' = [name |-> "stop", found |-> Exists(file),
                            raised |-> raised]
    /\ UNCHANGED <<pc, exitStatus, hadStale, wasRunning, clientVars,
                   handlerVars>>
    /\ UNCHANGED <<openerVars, rewriterVars, stripVars, detectVars>>

CallerNext ==
    \/ StartCleanup
    \/ Bind
    \/ Chmod
    \/ CallCleanupSocket
    \/ CallStop

CallerSpec ==
    Init /\ [][CallerNext]_<<vars, callerVars, openerVars, rewriterVars, stripVars, detectVars>>

\* C22: whatever the lifecycle state and however many calls came before, a
\* call of cleanup_socket or stop() that finds no file at the path raises no
\* error and leaves the path as it is, and after every call that returns the
\* socket file is absent.
C22_DeletionIdempotent ==
    [][calls' = calls + 1 =>
          /\ file = "absent" => (~lastCall'.raised /\ UNCHANGED fileVars)
          /\ ~lastCall'.raised => file' = "absent"
      ]_<<vars, callerVars>>

\* a second call of stop() found no file, did not raise and left none
C22_Witness ==
    /\ calls >= 2
    /\ lastCall = [name |-> "stop", found |-> FALSE, raised |-> FALSE]
    /\ wasRunning
    /\ file = "absent"

(***************************************************************************)
(* Further claims about host-url-opener.py.                                *)
(***************************************************************************)
\* POST /open with the startup token and a Content-Length that is the
\* body's size, within the limit
AuthenticatedOpen(req) ==
    /\ req.method = "POST"
    /\ req.path = "/open"
    /\ req.auth = Bearer \o AUTH_TOKEN
    /\ req.clenText = "digits"
    /\ req.clen = req.body.size
    /\ req.clen <= MAX_URL_LENGTH

\* the body is not JSON with a url field: not valid JSON, not an object, or
\* the url missing, empty or not a string
LacksUrl(body) ==
    \/ body.kind # "json"
    \/ body.top # "obj"
    \/ body.url.t # "str"
    \/ body.url.text = <<>>

\* C23: an authenticated POST /open whose body is not JSON with a url field
\* is answered 400 and runs no command, and every POST request gets exactly
\* one status response.
C23_BadBodyAnswered400 ==
    /\ (AuthenticatedOpen(uRequest) /\ LacksUrl(uRequest.body))
          => (uStatuses = <<400>> /\ uOpened = <<>>)
    /\ uRequest.method = "POST" => Len(uStatuses) = 1

(***************************************************************************)
(* detect-remote-mcps.py: detect_remote_mcps, generate_mcp_proxy_config,   *)
(* update_opencode_config and translate_localhost_urls.  Strings are       *)
(* sequences of characters; a JSON object is a function from its keys.     *)
(***************************************************************************)
\* servers of a config
MaxServers == 2

Txt == [ Npx |-> <<"n", "p", "x">>,
         DashY |-> <<"-", "y">>,
         McpRemote |-> <<"m", "c", "p", "-", "r", "e", "m", "o", "t", "e">>,
         Node |-> <<"n", "o", "d", "e">>,
         Http |-> <<"h", "t", "t", "p">>,
         Mcp |-> <<"m", "c", "p">>,
         Localhost |-> <<"l", "o", "c", "a", "l", "h", "o", "s", "t">>,
         Loopback |-> <<"1", "2", "7", ".", "0", ".", "0", ".", "1">>,
         DockerHost |-> <<"h", "o", "s", "t", ".", "d", "o", "c", "k", "e", "r", ".", "i", "n", "t", "e", "r", "n", "a", "l">>,
         UrlMcp |-> <<"h", "t", "t", "p", "s", ":", "/", "/", "x", "/", "m", "c", "p">>,
         UrlUpper |-> <<"h", "t", "t", "p", "s", ":", "/", "/", "x", "/", "M", "C", "P">>,
         UrlApi |-> <<"h", "t", "t", "p", "s", ":", "/", "/", "x", "/", "a", "p", "i">>,
         UrlLocal |-> <<"h", "t", "t", "p", ":", "/", "/", "l", "o", "c", "a", "l", "h", "o", "s", "t", ":", "1", "/", "m", "c", "p">>,
         UrlLoopback |-> <<"h", "t", "t", "p", ":", "/", "/", "1", "2", "7", ".", "0", ".", "0", ".", "1", "/", "s", "s", "e">> ]

\* the names servers can have: identifiers, and one that holds "://localhost"
NameList == << <<"a">>, <<"x", ":", "/", "/", "l", "o", "c", "a", "l", "h", "o", "s", "t">>,
              <<"b">>, <<"c">> >>

Names == { NameList[i] : i \in 1..MaxServers }

\* a JSON value that is missing, a string or a list of strings; a string is
\* kept as the list it is converted to
NoValue == [t |-> "absent", items |-> <<>>]
Str(text) == [t |-> "str", items |-> <<text>>]
List(items) == [t |-> "list", items |-> items]

\* a server entry: dict is whether it is a JSON object
Server(command, arguments, enabled) ==
    [dict |-> TRUE, command |-> command, args |-> arguments, enabled |-> enabled,
     type |-> "absent", url |-> <<>>]

\* the entries a config can hold
ServerShapes ==
    { [dict |-> FALSE, command |-> NoValue, args |-> NoValue,
       enabled |-> "absent", type |-> "absent", url |-> <<>>],
      Server(List(<<Txt.Npx, Txt.DashY, Txt.McpRemote, Txt.UrlMcp>>), NoValue, "absent"),
      Server(List(<<Txt.Npx, Txt.DashY, Txt.McpRemote>>), List(<<Txt.UrlApi>>), "false"),
      Server(List(<<Txt.Npx, Txt.DashY, Txt.McpRemote>>), NoValue, "true"),
      Server(List(<<Txt.McpRemote, Txt.UrlLocal>>), NoValue, "null"),
      Server(Str(Txt.McpRemote), Str(Txt.UrlMcp), "absent"),
      Server(List(<<Txt.Node>>), List(<<Txt.UrlApi, Txt.UrlUpper>>), "true"),
      Server(List(<<Txt.Node>>), List(<<Txt.UrlApi, Txt.Localhost>>), "absent"),
      [dict |-> TRUE, command |-> NoValue, args |-> NoValue,
       enabled |-> "absent", type |-> "remote", url |-> Txt.UrlLoopback] }

\* the values the key of the servers can have
ServerMaps ==
    UNION { [names -> ServerShapes] : names \in (SUBSET Names) \ {{}} }

\* the parsed configs: the servers under 'mcp', under 'mcpServers', or under
\* 'mcp' with another 'mcpServers' beside it
Configs ==
    { [mcp |-> [present |-> TRUE, servers |-> m], mcpServers |-> NoKey] :
          m \in ServerMaps }
        \cup { [mcp |-> NoKey, mcpServers |-> [present |-> TRUE, servers |-> m]] :
                   m \in ServerMaps }
        \cup { [mcp |-> [present |-> TRUE, servers |-> m],
                mcpServers |->
                    [present |-> TRUE,
                     servers |-> [n \in {NameList[1]} |->
                                    Server(List(<<Txt.McpRemote, Txt.UrlMcp>>),
                                           NoValue, "absent")]]] :
                   m \in ServerMaps }

\* str.lower() on one character of the strings above
ToLower(c) == CASE c = "M" -> "m" [] c = "C" -> "c" [] c = "P" -> "p"
                [] OTHER -> c

LowerCase(text) == [i \in 1..Len(text) |-> ToLower(text[i])]

\* needle in text, for strings
HasSubstring(text, needle) ==
    \E i \in 1..(Len(text) - Len(needle) + 1) :
        SubSeq(text, i, i + Len(needle) - 1) = needle

\* the first item that starts with 'http' and, when asked, holds 'mcp';
\* <<>> when there is none
RECURSIVE FirstUrl(_, _)
FirstUrl(items, needMcp) ==
    IF items = <<>> THEN <<>>
    ELSE IF /\ StartsWith(Head(items), Txt.Http)
            /\ needMcp => HasSubstring(LowerCase(Head(items)), Txt.Mcp)
         THEN Head(items)
    ELSE FirstUrl(Tail(items), needMcp)

\* detect_remote_mcps, the body of its loop: the remote url of a server
\* entry, <<>> when it is not a remote MCP
RemoteUrl(server_config) ==
    LET command == server_config.command.items
        arguments == server_config.args.items
    IN IF ~server_config.dict THEN <<>>
       ELSE IF /\ Len(command) >= 3
               /\ command[1] = Txt.Npx
               /\ \E i \in 1..Len(command) : command[i] = Txt.McpRemote
            THEN FirstUrl(command \o arguments, FALSE)
       ELSE IF Len(command) >= 1 /\ command[1] = Txt.McpRemote
            THEN FirstUrl(Tail(command) \o arguments, FALSE)
       ELSE IF arguments # <<>> THEN FirstUrl(arguments, TRUE)
       ELSE <<>>

\* 'mcp' if 'mcp' in config else 'mcpServers'
McpKey(cfg) == IF cfg.mcp.present THEN "mcp" ELSE "mcpServers"

\* config.get('mcp', config.get('mcpServers', {}))
McpServers(cfg) ==
    IF cfg.mcp.present THEN cfg.mcp.servers ELSE cfg.mcpServers.servers

\* detect_remote_mcps(config)
DetectRemoteMcps(cfg) ==
    LET mcp_servers == McpServers(cfg)
        found == { n \in DOMAIN mcp_servers : RemoteUrl(mcp_servers[n]) # <<>> }
    IN [n \in found |-> RemoteUrl(mcp_servers[n])]

\* f"npx -y mcp-remote {url}"
ProxyCommand(url) == Txt.Npx \o <<" ">> \o Txt.DashY \o <<" ">> \o Txt.McpRemote \o <<" ">> \o url

\* generate_mcp_proxy_config(remote_mcps), the value of its 'mcpServers'
GenerateMcpProxyConfig(remote) ==
    [n \in DOMAIN remote |-> [command |-> ProxyCommand(remote[n])]]

\* str(proxy_port)
PortText(port) == IF port = 8080 THEN <<"8", "0", "8", "0">>
                  ELSE <<"9", "0", "0", "0">>

\* "host.docker.internal" if use_docker else "localhost"
HostOf(docker) == IF docker THEN Txt.DockerHost ELSE Txt.Localhost

\* f"http://{host}:{proxy_port}/servers/{name}/sse"
EndpointUrl(host, port, name) ==
    Txt.Http \o <<":", "/", "/">> \o host \o <<":">> \o PortText(port)
        \o <<"/", "s", "e", "r", "v", "e", "r", "s", "/">> \o name
        \o <<"/", "s", "s", "e">>

\* mcp_servers[name].get('enabled', True)
OriginalEnabled(server_config) ==
    IF server_config.enabled = "absent" THEN "true" ELSE server_config.enabled

\* the entry update_opencode_config puts in place of a remote server
ProxiedEntry(server_config, host, port, name) ==
    [dict |-> TRUE, command |-> NoValue, args |-> NoValue,
     enabled |-> OriginalEnabled(server_config), type |-> "remote",
     url |-> EndpointUrl(host, port, name)]

\* \w of the regular expressions
WordChars == {"a", "b", "c", "d", "e", "h", "i", "l", "m", "n", "o", "p",
              "r", "s", "t", "v", "x", "y", "C", "M", "P",
              "0", "1", "2", "7", "8", "9"}

\* text.replace(old, new), or re.sub(old + r'\b', new, text) when boundary
RECURSIVE Replaced(_, _, _, _)
Replaced(text, old, new, boundary) ==
    IF text = <<>> THEN <<>>
    ELSE IF /\ StartsWith(text, old)
            /\ boundary => \/ Len(text) = Len(old)
                           \/ text[Len(old) + 1] \notin WordChars
         THEN new \o Replaced(Drop(text, Len(old)), old, new, boundary)
    ELSE <<Head(text)>> \o Replaced(Tail(text), old, new, boundary)

SchemeSep == <<":", "/", "/">>

\* the two re.sub calls on the url of a remote entry
TranslatedUrl(url) ==
    Replaced(Replaced(url, SchemeSep \o Txt.Localhost, SchemeSep \o Txt.DockerHost, TRUE),
             SchemeSep \o Txt.Loopback, SchemeSep \o Txt.DockerHost, TRUE)

\* the two str.replace calls on a command or an argument
TranslatedItem(item) ==
    Replaced(Replaced(item, Txt.Localhost, Txt.DockerHost, FALSE),
             Txt.Loopback, Txt.DockerHost, FALSE)

TranslatedValue(value) ==
    [value EXCEPT !.items = [i \in 1..Len(value.items) |->
                               TranslatedItem(value.items[i])]]

\* translate_localhost_urls, the body of its loop
TranslatedServer(server_config) ==
    IF ~server_config.dict THEN server_config
    ELSE [server_config EXCEPT
            !.url = IF server_config.type = "remote"
                    THEN TranslatedUrl(server_config.url)
                    ELSE server_config.url,
            !.command = TranslatedValue(server_config.command),
            !.args = TranslatedValue(server_config.args)]

\* update_opencode_config(config, remote_mcps, proxy_port, use_docker)
UpdateOpencodeConfig(cfg, remote, port, docker) ==
    LET mcp_servers == McpServers(cfg)
        updated == [n \in DOMAIN mcp_servers |->
                      IF n \in DOMAIN remote
                      THEN ProxiedEntry(mcp_servers[n], HostOf(docker), port, n)
                      ELSE mcp_servers[n]]
        translated == IF docker
                      THEN [n \in DOMAIN updated |-> TranslatedServer(updated[n])]
                      ELSE updated
        value == [present |-> TRUE, servers |-> translated]
    IN IF McpKey(cfg) = "mcp" THEN [cfg EXCEPT !.mcp = value]
       ELSE [cfg EXCEPT !.mcpServers = value]

DetectInit ==
    /\ dPc = "detect"
    /\ dConfig \in Configs
    /\ use_docker \in BOOLEAN
    /\ proxy_port \in {8080, 9000}
    /\ remote_mcps = <<>>
    /\ proxy_config = <<>>
    /\ updated_config = <<>>
    /\ ProxyOff
    /\ OpenerOff
    /\ RewriterOff
    /\ StripOff
    /\ CallerOff

\* the variables of the scripts other than these functions
exceptDetect == <<vars, openerVars, rewriterVars, stripVars, callerVars>>

\* main(): remote_mcps = detect_remote_mcps(config); return 1 when empty
DDetect ==
    /\ dPc = "detect"
    /\ remote_mcps' = DetectRemoteMcps(dConfig)
    /\ dPc' = IF DOMAIN remote_mcps' = {} THEN "returned" ELSE "generate"
    /\ UNCHANGED <<dConfig, use_docker, proxy_port, proxy_config, updated_config>>
    /\ UNCHANGED exceptDetect

\* main(): proxy_config = generate_mcp_proxy_config(remote_mcps)
DGenerate ==
    /\ dPc = "generate"
    /\ proxy_config' = GenerateMcpProxyConfig(remote_mcps)
    /\ dPc' = "update"
    /\ UNCHANGED <<dConfig, use_docker, proxy_port, remote_mcps, updated_config>>
    /\ UNCHANGED exceptDetect

\* main(): updated_config = update_opencode_config(config, remote_mcps,
\* args.port, args.docker)
DUpdate ==
    /\ dPc = "update"
    /\ updated_config' = UpdateOpencodeConfig(dConfig, remote_mcps,
                                              proxy_port, use_docker)
    /\ dPc' = "updated"
    /\ UNCHANGED <<dConfig, use_docker, proxy_port, remote_mcps, proxy_config>>
    /\ UNCHANGED exceptDetect

DetectNext ==
    \/ DDetect
    \/ DGenerate
    \/ DUpdate

DetectSpec ==
    DetectInit /\ [][DetectNext]_<<detectVars, vars, openerVars, rewriterVars, stripVars, callerVars>>

(***************************************************************************)
(* Claims about detect_remote_mcps, generate_mcp_proxy_config and          *)
(* update_opencode_config.                                                 *)
(***************************************************************************)
\* 'npx -y mcp-remote <url>'
ExpectedCommand(url) ==
    <<"n", "p", "x", " ", "-", "y", " ", "m", "c", "p", "-", "r", "e", "m", "o", "t", "e", " ">>
        \o url

\* http://<host>:<port>/servers/<name>/sse
ExpectedEndpoint(docker, port, name) ==
    <<"h", "t", "t", "p", ":", "/", "/">>
        \o (IF docker
            THEN <<"h", "o", "s", "t", ".", "d", "o", "c", "k", "e", "r", ".", "i", "n", "t", "e", "r", "n", "a", "l">>
            ELSE <<"l", "o", "c", "a", "l", "h", "o", "s", "t">>)
        \o <<":">> \o PortText(port)
        \o <<"/", "s", "e", "r", "v", "e", "r", "s", "/">> \o name \o <<"/", "s", "s", "e">>

\* the entry points the name at its endpoint of the proxy
PointsAtProxy(entry, name) ==
    /\ entry.dict
    /\ entry.type = "remote"
    /\ entry.url = ExpectedEndpoint(use_docker, proxy_port, name)

\* C24: for every name detected as remote the proxy configuration holds the
\* command 'npx -y mcp-remote <its url>' and the rewritten configuration
\* holds a type 'remote' entry with url
\* http://<host>:<port>/servers/<name>/sse and the original enabled value
\* (true when absent); the names of the proxy configuration are the names
\* rewritten, and every other server keeps its name.
C24_DetectedServersProxied ==
    dPc = "updated" =>
        LET original == McpServers(dConfig)
            rewritten == McpServers(updated_config)
        IN /\ \A n \in DOMAIN remote_mcps :
                 /\ n \in DOMAIN proxy_config
                 /\ proxy_config[n].command = ExpectedCommand(remote_mcps[n])
                 /\ n \in DOMAIN rewritten
                 /\ PointsAtProxy(rewritten[n], n)
                 /\ rewritten[n].enabled =
                        IF original[n].enabled = "absent" THEN "true"
                        ELSE original[n].enabled
           /\ DOMAIN proxy_config =
                  { n \in DOMAIN rewritten : PointsAtProxy(rewritten[n], n) }
           /\ DOMAIN original \subseteq DOMAIN rewritten

(***************************************************************************)
(* Further claims about the helper of git-credential-proxy.py.             *)
(***************************************************************************)
\* the frame of the connection passed the whole parse, and the helper was
\* started with its trimmed first line as argument
ParsedBeforeSpawn ==
    (Spawned /\ pc # "exited") =>
        /\ request_data # <<>>
        /\ Utf8Valid(request_data)
        /\ ~NoNewline(request_data)
        /\ TrimmedFirstLine(request_data) \in Ops
        /\ helperOp = TrimmedFirstLine(request_data)

\* C25: a helper is started only by the handler of a connection that has
\* started none yet, so at most once per accepted connection (the record of
\* a helper is dropped only when the next connection is accepted), and only when
\* the frame is non-empty, decodes as UTF-8, holds a newline and has get,
\* store or erase as trimmed first line; that token is the helper's argument.
C25_OneHelperAfterParse ==
    [][ /\ process' = "running" =>
              \/ process = "running"
              \/ process = "none" /\ pc = "recv" /\ pc' = "communicate"
        /\ (process # "none" /\ process' = "none")
              => (pc = "accept" /\ conn' = conn + 1)
        /\ ParsedBeforeSpawn
      ]_vars

\* a helper runs for a frame whose first line needed trimming
C25_Witness ==
    /\ process = "running"
    /\ pc = "communicate"
    /\ request_data = Chunk.EraseCrLf
    /\ helperOp = <<101, 114, 97, 115, 101>>

====
